---- MODULE Spec2Model ----
(***************************************************************************)
(* Core Collapse: the round/phase engine, the reactor-load pipeline and    *)
(* the item-effect resolver.                                               *)
(*                                                                         *)
(* The repository holds two engines over the same data model:              *)
(*   - CoreCollapseGame (the component that drives the phase table of      *)
(*     game/state/machine through transitionPhase, keeps engageSeatIndex   *)
(*     and reads the balance configuration);                               *)
(*   - App (src/App.tsx, which sets the phase directly and starts the job  *)
(*     minigame from an effect); its definitions are prefixed App_.        *)
(* The variable engine records which of the two is mounted; both share the *)
(* other variables, and a variable only one engine owns stays at its       *)
(* initial value under the other.  A handler is one atomic step: React     *)
(* runs it on the committed state and commits its updates, with the        *)
(* effects they trigger, before the next event.                            *)
(*                                                                         *)
(* Fixed point: every quantity the code holds as a fraction, and the       *)
(* reactor totals that item deltas are added to, are held in hundredths    *)
(* (Scale = 100): shipHealth01 = 95 is 0.95, totalAfterItems = 900 is 9.   *)
(* reactorEnergy01 is held as the exact fraction num/den.                  *)
(***************************************************************************)
EXTENDS Integers, Sequences, FiniteSets, TLC

\* ------------------------------------------------------------------ bounds
\* rng.next() returns k/RngDen for some k in RngLow..RngHigh; within one handler
\* every call returns the same value
RngDen == 4
RngLow == 1
RngHigh == 2
\* the local player picks among the first MaxPick cards of the hand
MaxPick == 2
\* events outside the plain course of a game: one dispatched in a phase whose
\* screen does not offer it or with a payload the screen does not offer, a card
\* choice while a card is already in the slot, an event its handler returns from
\* at once, and (SpecRedelivery) a completion callback called a second time
MaxStray == 1
\* App: item-activation requests that carry an item of another player (under
\* CoreCollapseGame such a request is one of the MaxStray events)
MaxForeign == 1

\* --------------------------------------------------------------- constants
Scale == 100

LOCAL_PLAYER_ID == "p1"

PlayerOrder == <<"p1", "p2", "p3">>

PlayerIds == {PlayerOrder[i] : i \in 1..Len(PlayerOrder)}

JOBS == <<"PowerEngineer", "CoolantTech", "FluxSpecialist">>

\* the tiers the minigame collaborators of minigames/registry deliver
MinigameTiers == {"success", "partial", "fail"}

\* score01 (hundredths) the registry's minigames deliver with each tier
TierScore(tier) == CASE tier = "success" -> 100
                     [] tier = "partial" -> 60
                     [] OTHER -> 20

Min(a, b) == IF a < b THEN a ELSE b

Max(a, b) == IF a > b THEN a ELSE b

\* clamp01 without the upper bound
clamp01_NoCeiling(v) == Max(0, v)

\* clamp01 on hundredths
clamp01(v) == Max(0, Min(Scale, v))

\* total / reactorLimit without the upper bound of clamp01
EnergyOf_NoCeiling(total, limit) == [num |-> Max(0, total), den |-> limit * Scale]

\* clamp01(total / reactorLimit) as an exact fraction
EnergyOf(total, limit) == [num |-> Max(0, Min(limit * Scale, total)), den |-> limit * Scale]

\* ------------------------------------------------------------ balance config
defaultBalanceConfig ==
  [ roundsMax |-> 6,
    overloadLoss |-> 30,
    failLoss |-> 10,
    allSuccessGain |-> 5,
    deckSize |-> 9,
    handSize |-> 5,
    gateBasePerPlayer |-> 4,
    gateOffsets |-> <<-2, -1, 0, 1, 2>>,
    items |-> [ BOOST |-> [deltaTotal |-> 3, deltaShip |-> 0],
                VENT |-> [deltaTotal |-> -3, deltaShip |-> 5],
                EQUALIZER |-> [belowGate |-> 2, otherwise |-> -2, deltaShip |-> 0] ] ]

\* a JSON value that is not a finite number (a string, null, a boolean): no
\* number the configurations below hold
Malformed == 999

\* the keys of the balance file that the configurations below may hold
ConfigKeys == {"roundsMax", "deckSize", "gateBasePerPlayer", "gateOffsets"}

\* the values of gateOffsets when it is an array
OffsetInputs == { << >>, <<1, -1>>, <<2, Malformed, -2>>, <<Malformed>> }

\* the parsed bodies of /config/balance.json: not an object, or an object with
\* the keys of keys, of which isArray tells whether gateOffsets is an array (a
\* key that is missing is given one fixed value here, which is never read)
RawConfigs ==
  { r \in [ isObject : BOOLEAN, keys : SUBSET ConfigKeys, roundsMax : {3, Malformed},
            deckSize : {7, Malformed}, gateBasePerPlayer : {5}, isArray : BOOLEAN,
            gateOffsets : OffsetInputs ] :
      /\ ~r.isObject => r.keys = {}
      /\ "roundsMax" \notin r.keys => r.roundsMax = 3
      /\ "deckSize" \notin r.keys => r.deckSize = 7
      /\ "gateOffsets" \notin r.keys => ~r.isArray
      /\ ~r.isArray => r.gateOffsets = << >> }

\* {...defaultBalanceConfig, ...incoming, gateOffsets: ..., items: ...}; incoming
\* holds no items, so every item keeps its defaults
mergeBalanceConfig(incoming) ==
  IF ~incoming.isObject THEN defaultBalanceConfig
  ELSE [ defaultBalanceConfig EXCEPT
           !.roundsMax = IF "roundsMax" \in incoming.keys THEN incoming.roundsMax ELSE @,
           !.deckSize = IF "deckSize" \in incoming.keys THEN incoming.deckSize ELSE @,
           !.gateBasePerPlayer = IF "gateBasePerPlayer" \in incoming.keys
                                 THEN incoming.gateBasePerPlayer ELSE @,
           !.gateOffsets = IF "gateOffsets" \in incoming.keys /\ incoming.isArray
                           THEN SelectSeq(incoming.gateOffsets, LAMBDA n : n # Malformed)
                           ELSE @ ]

\* tier -> multiplier as <<numerator, denominator>>; the keys are upper case
ITEM_TIER_MULTIPLIERS ==
  [ BOOST |-> [SUCCESS |-> <<1, 1>>, PARTIAL |-> <<1, 3>>, FAIL |-> <<0, 1>>],
    VENT |-> [SUCCESS |-> <<1, 1>>, PARTIAL |-> <<2, 3>>, FAIL |-> <<1, 3>>],
    EQUALIZER |-> [SUCCESS |-> <<1, 1>>, PARTIAL |-> <<1, 2>>, FAIL |-> <<0, 1>>] ]

ITEM_SHIP_MULTIPLIERS ==
  [ BOOST |-> [SUCCESS |-> <<0, 1>>, PARTIAL |-> <<0, 1>>, FAIL |-> <<0, 1>>],
    VENT |-> [SUCCESS |-> <<1, 1>>, PARTIAL |-> <<0, 1>>, FAIL |-> <<-2, 5>>],
    EQUALIZER |-> [SUCCESS |-> <<0, 1>>, PARTIAL |-> <<0, 1>>, FAIL |-> <<0, 1>>] ]

\* multipliers?.[tier] ?? 0 : a tier that is not a key of the table gives 0
TierLookup(table, itemId, tier) ==
  IF tier \in DOMAIN table[itemId] THEN table[itemId][tier] ELSE <<0, 1>>

\* Math.round(value * 100) / 100 of value = h * m[1] / m[2], h in hundredths;
\* Math.round(x) is floor(x + 1/2)
roundHundred(h, m) == (2 * h * m[1] + m[2]) \div (2 * m[2])

getItemEffect(itemId, tier, isBelowGate, balance) ==
  LET tierMultiplier == TierLookup(ITEM_TIER_MULTIPLIERS, itemId, tier)
      shipMultiplier == TierLookup(ITEM_SHIP_MULTIPLIERS, itemId, tier)
      base == CASE itemId = "BOOST" -> balance.items.BOOST.deltaTotal
                [] itemId = "VENT" -> balance.items.VENT.deltaTotal
                [] OTHER -> IF isBelowGate THEN balance.items.EQUALIZER.belowGate
                                           ELSE balance.items.EQUALIZER.otherwise
  IN [ deltaTotal |-> roundHundred(base * Scale, tierMultiplier),
       deltaShipHealth01 |-> roundHundred(balance.items[itemId].deltaShip, shipMultiplier) ]

\* game/actions/items: the effect does not depend on the tier
applyItem(itemId, isBelowGate, balance) ==
  CASE itemId = "BOOST" -> [ deltaTotal |-> balance.items.BOOST.deltaTotal * Scale,
                             deltaShip |-> balance.items.BOOST.deltaShip ]
    [] itemId = "VENT" -> [ deltaTotal |-> balance.items.VENT.deltaTotal * Scale,
                            deltaShip |-> balance.items.VENT.deltaShip ]
    [] OTHER -> [ deltaTotal |-> Scale * (IF isBelowGate THEN balance.items.EQUALIZER.belowGate
                                                       ELSE balance.items.EQUALIZER.otherwise),
                  deltaShip |-> balance.items.EQUALIZER.deltaShip ]

\* ------------------------------------------------------------------ players
createJobItems(job) ==
  CASE job = "PowerEngineer" -> << [id |-> "BOOST", timing |-> "Engage", job |-> job, used |-> FALSE] >>
    [] job = "CoolantTech" -> << [id |-> "VENT", timing |-> "Engage", job |-> job, used |-> FALSE] >>
    [] job = "FluxSpecialist" -> << [id |-> "EQUALIZER", timing |-> "Engage", job |-> job, used |-> FALSE] >>
    [] OTHER -> << >>

createDefaultPlayers ==
  [ p \in PlayerIds |->
      CASE p = "p1" -> [seatIndex |-> 0, role |-> "Crew", job |-> "PowerEngineer",
                        items |-> createJobItems("PowerEngineer")]
        [] p = "p2" -> [seatIndex |-> 1, role |-> "Crew", job |-> "CoolantTech",
                        items |-> createJobItems("CoolantTech")]
        [] OTHER -> [seatIndex |-> 2, role |-> "Saboteur", job |-> "FluxSpecialist",
                     items |-> createJobItems("FluxSpecialist")] ]

\* items.map(it => it.id === itemId ? {...it, used: true} : it) for one player
MarkUsed(ps, playerId, itemId) ==
  [ p \in PlayerIds |->
      IF p = playerId
      THEN [ ps[p] EXCEPT !.items =
               [ i \in 1..Len(ps[p].items) |->
                   IF ps[p].items[i].id = itemId
                   THEN [ps[p].items[i] EXCEPT !.used = TRUE]
                   ELSE ps[p].items[i] ] ]
      ELSE ps[p] ]

\* items.map(item => item.timing === "Engage" ? {...item, used: false} : item)
ResetEngageItems(ps) ==
  [ p \in PlayerIds |->
      [ ps[p] EXCEPT !.items =
          [ i \in 1..Len(ps[p].items) |->
              IF ps[p].items[i].timing = "Engage"
              THEN [ps[p].items[i] EXCEPT !.used = FALSE]
              ELSE ps[p].items[i] ] ] ]

\* ------------------------------------------------------------------- rounds
NoCard == 0

NoOutcome == "unset"

\* the offset index held at the last offset instead of wrapping around
computeGate_NoWrap(index, balance) ==
  balance.gateBasePerPlayer * Len(PlayerOrder)
    + balance.gateOffsets[Min(index, Len(balance.gateOffsets))]

\* the round index used as the offset index, without the shift to 0-based
computeGate_FromIndex(index, balance) ==
  balance.gateBasePerPlayer * Len(PlayerOrder)
    + balance.gateOffsets[(index % Len(balance.gateOffsets)) + 1]

computeGate(index, balance) ==
  LET base == balance.gateBasePerPlayer * Len(PlayerOrder)
      offsets == IF Len(balance.gateOffsets) > 0 THEN balance.gateOffsets
                 ELSE defaultBalanceConfig.gateOffsets
  IN base + offsets[((index - 1) % Len(offsets)) + 1]

createInitialRound(index, balance) ==
  [ index |-> index,
    gate |-> computeGate(index, balance),
    cardsPlayed |-> [p \in PlayerIds |-> NoCard],
    totalBeforeItems |-> 0,
    totalAfterItems |-> 0,
    reactorEnergy01 |-> [num |-> 0, den |-> 1],
    outcome |-> NoOutcome,
    minigameResults |-> << >> ]

GATE_OFFSETS == <<-2, -1, 0, 1, 2>>

\* game/setup: the gate base 4 per player and GATE_OFFSETS are literals
App_createInitialRound(index) ==
  [ index |-> index,
    gate |-> Len(PlayerOrder) * 4 + GATE_OFFSETS[((index - 1) % Len(GATE_OFFSETS)) + 1],
    cardsPlayed |-> [p \in PlayerIds |-> NoCard],
    totalBeforeItems |-> 0,
    totalAfterItems |-> 0,
    reactorEnergy01 |-> [num |-> 0, den |-> 1],
    outcome |-> NoOutcome,
    minigameResults |-> << >> ]

\* ---------------------------------------------------------------------- rng
\* a stream: the numerators of the successive rng.next() values of one handler
RngStreams ==
  { [k \in 1..9 |-> a] : a \in {x \in RngLow..RngHigh : x < RngDen} }

\* 1 + Math.floor(rng.next() * deckSize)
randomCard(deckSize, r) == 1 + ((r * deckSize) \div RngDen)

\* the exchange with its second assignment lost
Swap_Overwrite(s, i, j) == [s EXCEPT ![i] = s[j]]

Swap(s, i, j) == [s EXCEPT ![i] = s[j], ![j] = s[i]]

\* Fisher-Yates from the last index down; i and j are 0-based as in the source,
\* the k-th call of rng.next() is stream[k]
RECURSIVE ShuffleFrom(_, _, _, _)
ShuffleFrom(result, i, k, stream) ==
  IF i <= 0 THEN result
  ELSE LET j == (stream[k] * (i + 1)) \div RngDen
       IN ShuffleFrom(Swap(result, i + 1, j + 1), i - 1, k + 1, stream)

shuffleArray(values, stream) == ShuffleFrom(values, Len(values) - 1, 1, stream)

\* Array.from({length: deckSize}, (_, i) => i + 1)
Deck(deckSize) == [i \in 1..deckSize |-> i]

CARD_VALUES == <<1, 2, 3, 4, 5, 6, 7, 8, 9>>

\* ------------------------------------------------------------ phase machine
transitions ==
  [ Lobby |-> [START |-> "RoleReveal"],
    RoleReveal |-> [START |-> "Plan"],
    Plan |-> [PLAN_LOCK_IN |-> "Ignition"],
    Ignition |-> [IGNITION_DONE |-> "Engage"],
    Engage |-> [MINIGAME_START |-> "MiniGame", ENGAGE_NEXT |-> "Maintenance"],
    MiniGame |-> [MINIGAME_COMPLETE |-> "Engage"],
    Maintenance |-> [MAINTENANCE_RESOLVE |-> "Plan", ENGAGE_NEXT |-> "GameOver"],
    GameOver |-> [RESTART |-> "Lobby"] ]

nextPhase(current, event) ==
  IF event \in DOMAIN transitions[current] THEN transitions[current][event] ELSE current

\* -------------------------------------------------------------------- state
VARIABLES
  engine,             \* which component is mounted: "game" (CoreCollapseGame) or "app" (App)
  phase,              \* Phase
  players,            \* Player[] as a function of the player id
  roundIndex,
  reactorLimit,
  shipHealth01,       \* hundredths
  overloads,
  clears,
  round,              \* RoundState
  hand,
  slotCard,
  engageSeatIndex,    \* CoreCollapseGame only
  activeMinigame,     \* << >> for null, else <<[player, job, item, mode]>>
  pendingFinalize,    \* CoreCollapseGame only: setTimeout callbacks of finalizeMinigame not yet run
  balanceConfig,      \* CoreCollapseGame: the balanceConfig state; App: the cached config
  pendingItemEffect,  \* App only: << >> for null, else <<[playerId, itemId, deltaTotal, deltaShip]>>
  jobMinigameRoundRef,      \* App only: a round index, 0 for null
  engageItemResetRoundRef,  \* App only: a round index, 0 for null
  strays,             \* events so far outside the plain course of a game
  foreign,            \* App: item-activation requests so far with an item of another player
  ignored,            \* the event just dispatched when its handler returned early, else ""
  delivered,          \* the completion callback just delivered, which the unmounted minigame
                      \* still holds: << >> for none, else <<[am, below, pie]>>, the
                      \* activeMinigame, isBelowGate and pendingItemEffect it is closed over
  fetched             \* the body of the /config/balance.json response that was merged:
                      \* << >> while no response was (the defaults apply), else <<raw>>

coreVars == <<phase, players, roundIndex, reactorLimit, shipHealth01, overloads, clears,
              round, hand, slotCard, activeMinigame, balanceConfig>>

gameVars == <<engageSeatIndex, pendingFinalize>>

appVars == <<pendingItemEffect, jobMinigameRoundRef, engageItemResetRoundRef>>

\* the program's own state
progVars == <<coreVars, gameVars, appVars>>

envVars == <<strays, foreign>>

vars == <<engine, progVars, envVars, ignored, delivered, fetched>>

\* an event of the plain course of a game costs nothing; any other one is a stray
\* (one that changes nothing is not counted)
Offered(ok) ==
  /\ IF ok THEN strays' = strays
     ELSE strays < MaxStray /\ strays' = strays + 1 /\ progVars' # progVars
  /\ foreign' = foreign
  /\ ignored' = ""
  /\ delivered' = << >>
  /\ fetched' = fetched

OwnItem(ok) ==
  /\ IF ok THEN foreign' = foreign ELSE foreign < MaxForeign /\ foreign' = foreign + 1
  /\ strays' = strays
  /\ ignored' = ""
  /\ delivered' = << >>
  /\ fetched' = fetched

\* a handler that runs to its end
Handled == UNCHANGED <<envVars, fetched>> /\ ignored' = "" /\ delivered' = << >>

\* a handler that returns before any update: one of the events outside the plain
\* course of a game
Ignored(event) ==
  /\ UNCHANGED <<engine, progVars, foreign, fetched>>
  /\ strays < MaxStray
  /\ strays' = strays + 1
  /\ ignored' = event
  /\ delivered' = << >>

Init ==
  /\ engine \in {"game", "app"}
  /\ phase = "Lobby"
  /\ players = createDefaultPlayers
  /\ roundIndex = 1
  /\ reactorLimit = 6 * 3
  /\ shipHealth01 = Scale
  /\ overloads = 0
  /\ clears = 0
  /\ balanceConfig = defaultBalanceConfig
  /\ round = IF engine = "game" THEN createInitialRound(1, defaultBalanceConfig)
             ELSE App_createInitialRound(1)
  /\ hand = << >>
  /\ slotCard = NoCard
  /\ engageSeatIndex = 0
  /\ activeMinigame = << >>
  /\ pendingFinalize = 0
  /\ pendingItemEffect = << >>
  /\ jobMinigameRoundRef = 0
  /\ engageItemResetRoundRef = 0
  /\ strays = 0
  /\ foreign = 0
  /\ ignored = ""
  /\ delivered = << >>
  /\ fetched = << >>

\* ------------------------------------------------- CoreCollapseGame handlers
\* the hand dealHand deals
DealtHand(stream, balance) ==
  LET cards == shuffleArray(Deck(balance.deckSize), stream)
      nextHandSize == Min(balance.handSize, Len(cards))
  IN SubSeq(cards, 1, nextHandSize)

\* the round dealHand leaves
DealtRound(r) == [r EXCEPT !.cardsPlayed[LOCAL_PLAYER_ID] = NoCard]

\* useEffect on [balanceConfig, players]: the gate is recomputed for the round's index
GateEffect(r) == [r EXCEPT !.gate = computeGate(r.index, balanceConfig)]

\* lobby.ready
startGame ==
  /\ engine = "game"
  /\ phase' = nextPhase(phase, "START")
  /\ UNCHANGED <<engine, players, roundIndex, reactorLimit, shipHealth01, overloads, clears,
                 round, hand, slotCard, activeMinigame, balanceConfig, gameVars, appVars>>
  /\ Offered(phase = "Lobby")

\* roleReveal.continue
proceedFromRoleReveal ==
  \E stream \in RngStreams :
    /\ engine = "game"
    /\ hand' = DealtHand(stream, balanceConfig)
    /\ slotCard' = NoCard
    /\ round' = DealtRound(round)
    /\ phase' = nextPhase(phase, "START")
    /\ UNCHANGED <<engine, players, roundIndex, reactorLimit, shipHealth01, overloads, clears,
                   activeMinigame, balanceConfig, gameVars, appVars>>
    /\ Offered(phase = "RoleReveal")

\* prev.filter(c => c !== value)
Without(s, value) == SelectSeq(s, LAMBDA c : c # value)

HandCards == {hand[i] : i \in 1..Len(hand)}

\* the values plan.chooseCard is dispatched with: the first cards of the hand, the
\* card in the slot, and one value that is in neither
ChooseInputs ==
  ({hand[i] : i \in 1..Min(MaxPick, Len(hand))} \cup {slotCard} \cup {Len(CARD_VALUES) + 1})
    \ {NoCard}

\* if (phase !== "Plan") return
ChooseRefused(ph) == ph # "Plan"

\* plan.chooseCard
handleChooseCard ==
  \E value \in ChooseInputs :
    /\ engine = "game"
    /\ IF ChooseRefused(phase) THEN Ignored("plan.chooseCard")
       ELSE /\ hand' = IF slotCard # NoCard THEN Append(Without(hand, value), slotCard)
                       ELSE Without(hand, value)
            /\ slotCard' = value
            /\ round' = [round EXCEPT !.cardsPlayed[LOCAL_PLAYER_ID] = value]
            /\ UNCHANGED <<engine, phase, players, roundIndex, reactorLimit, shipHealth01,
                           overloads, clears, activeMinigame, balanceConfig, gameVars, appVars>>
            /\ Offered(slotCard = NoCard /\ value \in HandCards)

\* players.forEach(p => { if (updatedCards[p.id] == null) updatedCards[p.id] = randomCard() }):
\* the n-th player without a card gets the n-th value of the stream
RECURSIVE FillCards(_, _, _, _, _)
FillCards(cards, i, k, stream, deckSize) ==
  IF i > Len(PlayerOrder) THEN cards
  ELSE IF cards[PlayerOrder[i]] = NoCard
       THEN FillCards([cards EXCEPT ![PlayerOrder[i]] = randomCard(deckSize, stream[k])],
                      i + 1, k + 1, stream, deckSize)
       ELSE FillCards(cards, i + 1, k, stream, deckSize)

\* Object.values(updatedCards).reduce((sum, v) => sum + (v ?? 0), 0)
RECURSIVE SumCards(_, _)
SumCards(cards, i) ==
  IF i > Len(PlayerOrder) THEN 0 ELSE cards[PlayerOrder[i]] + SumCards(cards, i + 1)

\* the round proceedFromPlan leaves
LockedRound(r, stream, deckSize, limit) ==
  LET updatedCards == FillCards(r.cardsPlayed, 1, 1, stream, deckSize)
      total == Scale * SumCards(updatedCards, 1)
  IN [r EXCEPT !.cardsPlayed = updatedCards,
               !.totalBeforeItems = total,
               !.totalAfterItems = total,
               !.reactorEnergy01 = EnergyOf(total, limit)]

\* the two early returns of proceedFromPlan without the test of the local card
LockRefused_PhaseOnly(ph, localCard) == ph # "Plan"

\* if (phase !== "Plan") return; if (localCard == null) return
LockRefused(ph, localCard) == ph # "Plan" \/ localCard = NoCard

\* plan.lock
proceedFromPlan ==
  \E stream \in RngStreams :
    /\ engine = "game"
    /\ IF LockRefused(phase, round.cardsPlayed[LOCAL_PLAYER_ID]) THEN Ignored("plan.lock")
       ELSE /\ round' = LockedRound(round, stream, balanceConfig.deckSize, reactorLimit)
            /\ phase' = nextPhase(phase, "PLAN_LOCK_IN")
            /\ UNCHANGED <<engine, players, roundIndex, reactorLimit, shipHealth01, overloads,
                           clears, hand, slotCard, activeMinigame, balanceConfig, gameVars,
                           appVars>>
            /\ Handled

\* ignition.proceed
proceedFromIgnition ==
  /\ engine = "game"
  /\ engageSeatIndex' = 0
  /\ phase' = nextPhase(phase, "IGNITION_DONE")
  /\ UNCHANGED <<engine, players, roundIndex, reactorLimit, shipHealth01, overloads, clears,
                 round, hand, slotCard, activeMinigame, balanceConfig, pendingFinalize, appVars>>
  /\ Offered(phase = "Ignition")

\* engage.pass
handleEngagePass ==
  /\ engine = "game"
  /\ phase = "Engage"
  /\ LET next == engageSeatIndex + 1
     IN IF next >= Len(PlayerOrder)
        THEN phase' = nextPhase(phase, "ENGAGE_NEXT") /\ UNCHANGED engageSeatIndex
        ELSE engageSeatIndex' = next /\ UNCHANGED phase
  /\ UNCHANGED <<engine, players, roundIndex, reactorLimit, shipHealth01, overloads, clears,
                 round, hand, slotCard, activeMinigame, balanceConfig, pendingFinalize, appVars>>
  /\ Handled

ItemsOf(p) == {players[p].items[i] : i \in 1..Len(players[p].items)}

\* the item objects an activation request can carry: any item of any player
AllItems == UNION {ItemsOf(p) : p \in PlayerIds}

\* an item-activation request (the inventory passes the local player and one of
\* the local player's items)
handlePlayEngageItem ==
  \E player \in PlayerIds, item \in AllItems :
    /\ engine = "game"
    /\ IF phase # "Engage" \/ item.used \/ player # LOCAL_PLAYER_ID
       THEN Ignored("inventory.useItem")
       ELSE /\ activeMinigame' = << [player |-> player, job |-> players[player].job,
                                     item |-> item, mode |-> "item"] >>
            /\ phase' = nextPhase(phase, "MINIGAME_START")
            /\ UNCHANGED <<engine, players, roundIndex, reactorLimit, shipHealth01, overloads,
                           clears, round, hand, slotCard, balanceConfig, gameVars, appVars>>
            /\ Offered(item \in ItemsOf(LOCAL_PLAYER_ID))

\* handleMinigameComplete(tier, score01) as the onComplete callback of one render
\* runs it, with the synchronous part of finalizeMinigame: am and below are the
\* activeMinigame and round.totalAfterItems < round.gate of that render, the
\* updates of round, shipHealth01 and players are functional updates
CompleteWith(am, below, tier) ==
  LET effect == getItemEffect(am.item.id, tier, below, balanceConfig)
      result == [ playerId |-> am.player, job |-> am.job, itemId |-> am.item.id,
                  tier |-> tier, score01 |-> TierScore(tier),
                  deltaTotal |-> effect.deltaTotal,
                  deltaShipHealth01 |-> effect.deltaShipHealth01 ]
  IN /\ round' = GateEffect([round EXCEPT
                    !.totalAfterItems = round.totalAfterItems + result.deltaTotal,
                    !.minigameResults = Append(round.minigameResults, result)])
     /\ shipHealth01' = clamp01(shipHealth01 + result.deltaShipHealth01)
     /\ players' = MarkUsed(players, result.playerId, result.itemId)
     /\ activeMinigame' = << >>
     /\ pendingFinalize' = pendingFinalize + 1
     /\ UNCHANGED <<engine, phase, roundIndex, reactorLimit, overloads, clears, hand, slotCard,
                    balanceConfig, engageSeatIndex, appVars>>

\* minigame.complete(tier, score01): the rendered minigame calls onComplete
handleMinigameComplete ==
  \E tier \in MinigameTiers :
    /\ engine = "game"
    /\ activeMinigame # << >>
    /\ CompleteWith(activeMinigame[1], round.totalAfterItems < round.gate * Scale, tier)
    /\ delivered' = << [ am |-> activeMinigame[1],
                         below |-> round.totalAfterItems < round.gate * Scale,
                         pie |-> << >> ] >>
    /\ UNCHANGED <<envVars, fetched>>
    /\ ignored' = ""

\* the callback of the completed minigame is called once more
staleMinigameComplete ==
  \E tier \in MinigameTiers :
    /\ engine = "game"
    /\ delivered # << >>
    /\ CompleteWith(delivered[1].am, delivered[1].below, tier)
    /\ delivered' = << >>
    /\ strays < MaxStray
    /\ strays' = strays + 1
    /\ UNCHANGED <<foreign, fetched>>
    /\ ignored' = ""

\* the setTimeout(..., 0) callback of finalizeMinigame
finalizeTimeout ==
  /\ engine = "game"
  /\ pendingFinalize > 0
  /\ pendingFinalize' = pendingFinalize - 1
  /\ LET completed == nextPhase(phase, "MINIGAME_COMPLETE")
         next == engageSeatIndex + 1
     IN IF next >= Len(PlayerOrder)
        THEN phase' = nextPhase(completed, "ENGAGE_NEXT") /\ UNCHANGED engageSeatIndex
        ELSE phase' = completed /\ engageSeatIndex' = next
  /\ UNCHANGED <<engine, players, roundIndex, reactorLimit, shipHealth01, overloads, clears,
                 round, hand, slotCard, activeMinigame, balanceConfig, appVars>>
  /\ Handled

\* the gate tested before the reactor limit
Classify_ClearFirst(total, limit, gate) ==
  IF total >= gate * Scale THEN "Clear"
  ELSE IF total >= limit * Scale THEN "Overload"
  ELSE "Fail"

\* Overload before Clear before Fail
Classify(total, limit, gate) ==
  IF total >= limit * Scale THEN "Overload"
  ELSE IF total >= gate * Scale THEN "Clear"
  ELSE "Fail"

\* every() that is false of an empty list
AllSuccess_NonEmpty(results) ==
  Len(results) > 0 /\ \A i \in 1..Len(results) : results[i].tier = "success"

\* round.minigameResults.every(r => r.tier === "success")
AllSuccess(results) == \A i \in 1..Len(results) : results[i].tier = "success"

\* newShip of resolveMaintenance
ShipAfter(outcome, ship, results, overloadLoss, failLoss, allSuccessGain) ==
  CASE outcome = "Overload" -> clamp01(ship - overloadLoss)
    [] outcome = "Fail" -> clamp01(ship - failLoss)
    [] OTHER -> IF AllSuccess(results) THEN clamp01(ship + allSuccessGain) ELSE ship

\* the round limit tested with > instead of >=
GameEnds_PastLast(newOverloads, index, roundsMax) == newOverloads >= 2 \/ index > roundsMax

\* newOverloads >= 2 || roundIndex >= roundsMax
GameEnds(newOverloads, index, roundsMax) == newOverloads >= 2 \/ index >= roundsMax

NewOverloads(outcome) == IF outcome = "Overload" THEN overloads + 1 ELSE overloads

NewClears(outcome) == IF outcome = "Clear" THEN clears + 1 ELSE clears

\* maintenance.resolve
resolveMaintenance ==
  \E stream \in RngStreams :
    LET outcome == Classify(round.totalAfterItems, reactorLimit, round.gate)
    IN /\ engine = "game"
       /\ shipHealth01' = ShipAfter(outcome, shipHealth01, round.minigameResults,
                                    balanceConfig.overloadLoss, balanceConfig.failLoss,
                                    balanceConfig.allSuccessGain)
       /\ overloads' = NewOverloads(outcome)
       /\ clears' = NewClears(outcome)
       /\ IF GameEnds(NewOverloads(outcome), roundIndex, balanceConfig.roundsMax)
          THEN /\ round' = [round EXCEPT !.outcome = outcome]
               /\ phase' = nextPhase(phase, "ENGAGE_NEXT")
               /\ UNCHANGED <<roundIndex, hand, slotCard>>
          ELSE /\ roundIndex' = roundIndex + 1
               /\ round' = DealtRound(createInitialRound(roundIndex + 1, balanceConfig))
               /\ hand' = DealtHand(stream, balanceConfig)
               /\ slotCard' = NoCard
               /\ phase' = nextPhase(phase, "MAINTENANCE_RESOLVE")
       /\ UNCHANGED <<engine, players, reactorLimit, activeMinigame, balanceConfig, gameVars,
                      appVars>>
       /\ Offered(phase = "Maintenance")

\* gameOver.restart
restartGame ==
  /\ engine = "game"
  /\ players' = createDefaultPlayers
  /\ reactorLimit' = 6 * Len(PlayerOrder)
  /\ shipHealth01' = Scale
  /\ overloads' = 0
  /\ clears' = 0
  /\ roundIndex' = 1
  /\ round' = GateEffect(createInitialRound(1, balanceConfig))
  /\ hand' = << >>
  /\ slotCard' = NoCard
  /\ phase' = nextPhase(phase, "RESTART")
  /\ UNCHANGED <<engine, activeMinigame, balanceConfig, gameVars, appVars>>
  /\ Offered(phase = "GameOver")

\* ui/phase/GameOver without the test of the overloads
crewWin_ClearsOnly(cl, ov) == cl >= 4

\* ui/phase/GameOver: const crewWin = clears >= 4 && overloads < 2
crewWin(cl, ov) == cl >= 4 /\ ov < 2

\* the title the GameOver screen shows, under either engine
GameOverTitle(cl, ov) == IF crewWin(cl, ov) THEN "Crew Victory" ELSE "Saboteur Victory"

NextGame ==
  \/ startGame
  \/ proceedFromRoleReveal
  \/ handleChooseCard
  \/ proceedFromPlan
  \/ proceedFromIgnition
  \/ handleEngagePass
  \/ handlePlayEngageItem
  \/ handleMinigameComplete
  \/ finalizeTimeout
  \/ resolveMaintenance
  \/ restartGame

\* ------------------------------------------------------------- App handlers
\* the first item of the local player with timing "Engage" that is not used
UnusedEngageItems(ps) ==
  SelectSeq(ps[LOCAL_PLAYER_ID].items, LAMBDA item : item.timing = "Engage" /\ ~item.used)

\* the pendingItemEffect startMinigame stores
PendingEffect(player, item, r) ==
  LET effect == applyItem(item.id, r.totalAfterItems < r.gate * Scale, balanceConfig)
  IN [ playerId |-> player, itemId |-> item.id,
       deltaTotal |-> effect.deltaTotal, deltaShip |-> effect.deltaShip ]

\* The commit of a handler's updates followed by the two effects of App: the
\* reset of the used flags on entering Engage in a round not yet reset, and the
\* start of the job minigame (startMinigame in mode "job").
App_Commit(ph, ps, r, am, pie) ==
  LET reset == ph = "Engage" /\ engageItemResetRoundRef # r.index
      ps1 == IF reset THEN ResetEngageItems(ps) ELSE ps
      jobRef == IF ph # "Engage" THEN 0 ELSE jobMinigameRoundRef
      unused == UnusedEngageItems(ps1)
      start == ph = "Engage" /\ am = << >> /\ jobRef # r.index /\ unused # << >>
  IN /\ phase' = ph
     /\ players' = ps1
     /\ round' = r
     /\ engageItemResetRoundRef' = IF reset THEN r.index ELSE engageItemResetRoundRef
     /\ jobMinigameRoundRef' = IF start THEN r.index ELSE jobRef
     /\ activeMinigame' =
          IF start THEN << [player |-> LOCAL_PLAYER_ID, job |-> ps1[LOCAL_PLAYER_ID].job,
                            item |-> unused[1], mode |-> "job"] >>
          ELSE am
     /\ pendingItemEffect' =
          IF start THEN << PendingEffect(LOCAL_PLAYER_ID, unused[1], r) >> ELSE pie

\* lobby.selectJob
App_selectJob ==
  \E job \in {JOBS[i] : i \in 1..Len(JOBS)} :
    /\ engine = "app"
    /\ App_Commit(phase,
                  [players EXCEPT ![LOCAL_PLAYER_ID].job = job,
                                  ![LOCAL_PLAYER_ID].items = createJobItems(job)],
                  round, activeMinigame, pendingItemEffect)
    /\ UNCHANGED <<engine, roundIndex, reactorLimit, shipHealth01, overloads, clears, hand,
                   slotCard, balanceConfig, gameVars>>
    /\ Offered(FALSE)

\* lobby.ready
App_startGame ==
  /\ engine = "app"
  /\ App_Commit("RoleReveal", players, round, activeMinigame, pendingItemEffect)
  /\ UNCHANGED <<engine, roundIndex, reactorLimit, shipHealth01, overloads, clears, hand,
                 slotCard, balanceConfig, gameVars>>
  /\ Offered(phase = "Lobby")

\* shuffleArray(CARD_VALUES, rngRef.current).slice(0, 5)
App_DealtHand(stream) == SubSeq(shuffleArray(CARD_VALUES, stream), 1, 5)

\* roleReveal.continue
App_proceedFromRoleReveal ==
  \E stream \in RngStreams :
    /\ engine = "app"
    /\ hand' = App_DealtHand(stream)
    /\ slotCard' = NoCard
    /\ App_Commit("Plan", players, DealtRound(round), activeMinigame, pendingItemEffect)
    /\ UNCHANGED <<engine, roundIndex, reactorLimit, shipHealth01, overloads, clears,
                   balanceConfig, gameVars>>
    /\ Offered(phase = "RoleReveal")

\* next.indexOf(value), 1-based; 0 for -1
IndexOf(s, value) ==
  IF \E i \in 1..Len(s) : s[i] = value
  THEN CHOOSE i \in 1..Len(s) : s[i] = value /\ \A j \in 1..(i - 1) : s[j] # value
  ELSE 0

\* next.splice(index, 1)
Splice(s, index) == SubSeq(s, 1, index - 1) \o SubSeq(s, index + 1, Len(s))

\* plan.chooseCard
App_handleChooseCard ==
  \E value \in ChooseInputs :
    /\ engine = "app"
    /\ IF ChooseRefused(phase) THEN Ignored("plan.chooseCard")
       ELSE /\ hand' = LET index == IndexOf(hand, value)
                       IN IF index = 0 THEN hand
                          ELSE IF slotCard # NoCard THEN Append(Splice(hand, index), slotCard)
                          ELSE Splice(hand, index)
            /\ slotCard' = value
            /\ App_Commit(phase, players, [round EXCEPT !.cardsPlayed[LOCAL_PLAYER_ID] = value],
                          activeMinigame, pendingItemEffect)
            /\ UNCHANGED <<engine, roundIndex, reactorLimit, shipHealth01, overloads, clears,
                           balanceConfig, gameVars>>
            /\ Offered(slotCard = NoCard /\ value \in HandCards)

\* plan.lock
App_proceedFromPlan ==
  \E stream \in RngStreams :
    /\ engine = "app"
    /\ IF LockRefused(phase, round.cardsPlayed[LOCAL_PLAYER_ID]) THEN Ignored("plan.lock")
       ELSE /\ App_Commit("Ignition", players, LockedRound(round, stream, 9, reactorLimit),
                          activeMinigame, pendingItemEffect)
            /\ UNCHANGED <<engine, roundIndex, reactorLimit, shipHealth01, overloads, clears,
                           hand, slotCard, balanceConfig, gameVars>>
            /\ Handled

\* ignition.proceed
App_proceedFromIgnition ==
  /\ engine = "app"
  /\ App_Commit("Engage", players, round, activeMinigame, pendingItemEffect)
  /\ UNCHANGED <<engine, roundIndex, reactorLimit, shipHealth01, overloads, clears, hand,
                 slotCard, balanceConfig, gameVars>>
  /\ Offered(phase = "Ignition")

\* an item-activation request: handlePlayEngageItem and startMinigame in mode "item"
App_handlePlayEngageItem ==
  \E player \in PlayerIds, item \in AllItems :
    /\ engine = "app"
    /\ IF phase # "Engage" \/ item.used \/ player # LOCAL_PLAYER_ID \/ activeMinigame # << >>
       THEN Ignored("inventory.useItem")
       ELSE /\ App_Commit(phase, players, round,
                          << [player |-> player, job |-> players[player].job, item |-> item,
                              mode |-> "item"] >>,
                          << PendingEffect(player, item, round) >>)
            /\ UNCHANGED <<engine, roundIndex, reactorLimit, shipHealth01, overloads, clears,
                           hand, slotCard, balanceConfig, gameVars>>
            /\ OwnItem(item \in ItemsOf(LOCAL_PLAYER_ID))

\* handleMinigameComplete(result) as the onComplete callback of one render runs
\* it: am and pie are the activeMinigame and pendingItemEffect of that render; the
\* registry's minigames call onComplete with deltaTotal = 0, deltaShipHealth01 = 0
App_CompleteWith(am, pie, tier) ==
  LET result == [ playerId |-> am.player, job |-> am.job, itemId |-> am.item.id,
                  tier |-> tier, score01 |-> TierScore(tier), deltaTotal |-> 0,
                  deltaShipHealth01 |-> 0 ]
      matches == /\ pie # << >>
                 /\ pie[1].playerId = result.playerId
                 /\ pie[1].itemId = result.itemId
      adjustedResult ==
        [ result EXCEPT
            !.deltaTotal = IF matches THEN pie[1].deltaTotal ELSE result.deltaTotal,
            !.deltaShipHealth01 = IF matches THEN pie[1].deltaShip
                                  ELSE result.deltaShipHealth01 ]
      currentMode == am.mode
  IN /\ shipHealth01' = clamp01(shipHealth01 + adjustedResult.deltaShipHealth01)
     /\ App_Commit(IF currentMode = "job" THEN "Maintenance" ELSE phase,
                   MarkUsed(players, adjustedResult.playerId, adjustedResult.itemId),
                   [round EXCEPT
                      !.totalAfterItems = round.totalAfterItems + adjustedResult.deltaTotal,
                      !.minigameResults = Append(round.minigameResults, adjustedResult)],
                   << >>, << >>)
     /\ UNCHANGED <<engine, roundIndex, reactorLimit, overloads, clears, hand, slotCard,
                    balanceConfig, gameVars>>

\* minigame.complete: the rendered minigame calls onComplete
App_handleMinigameComplete ==
  \E tier \in MinigameTiers :
    /\ engine = "app"
    /\ activeMinigame # << >>
    /\ App_CompleteWith(activeMinigame[1], pendingItemEffect, tier)
    /\ delivered' = << [am |-> activeMinigame[1], below |-> FALSE, pie |-> pendingItemEffect] >>
    /\ UNCHANGED <<envVars, fetched>>
    /\ ignored' = ""

\* the callback of the completed minigame is called once more
App_staleMinigameComplete ==
  \E tier \in MinigameTiers :
    /\ engine = "app"
    /\ delivered # << >>
    /\ App_CompleteWith(delivered[1].am, delivered[1].pie, tier)
    /\ delivered' = << >>
    /\ strays < MaxStray
    /\ strays' = strays + 1
    /\ UNCHANGED <<foreign, fetched>>
    /\ ignored' = ""

\* maintenance.resolve
App_resolveMaintenance ==
  \E stream \in RngStreams :
    LET outcome == Classify(round.totalAfterItems, reactorLimit, round.gate)
    IN /\ engine = "app"
       /\ shipHealth01' = ShipAfter(outcome, shipHealth01, round.minigameResults, 30, 10, 5)
       /\ overloads' = NewOverloads(outcome)
       /\ clears' = NewClears(outcome)
       /\ IF GameEnds(NewOverloads(outcome), roundIndex, 6)
          THEN /\ App_Commit("GameOver", players, [round EXCEPT !.outcome = outcome],
                             activeMinigame, pendingItemEffect)
               /\ UNCHANGED <<roundIndex, hand, slotCard>>
          ELSE /\ roundIndex' = roundIndex + 1
               /\ hand' = App_DealtHand(stream)
               /\ slotCard' = NoCard
               /\ App_Commit("Plan", ResetEngageItems(players),
                             DealtRound(App_createInitialRound(roundIndex + 1)),
                             activeMinigame, pendingItemEffect)
       /\ UNCHANGED <<engine, reactorLimit, balanceConfig, gameVars>>
       /\ Offered(phase = "Maintenance")

\* gameOver.restart
App_restartGame ==
  /\ engine = "app"
  /\ reactorLimit' = Len(PlayerOrder) * 6
  /\ shipHealth01' = Scale
  /\ overloads' = 0
  /\ clears' = 0
  /\ roundIndex' = 1
  /\ hand' = << >>
  /\ slotCard' = NoCard
  /\ App_Commit("Lobby", createDefaultPlayers, App_createInitialRound(1), << >>, << >>)
  /\ UNCHANGED <<engine, balanceConfig, gameVars>>
  /\ Offered(phase = "GameOver")

NextApp ==
  \/ App_selectJob
  \/ App_startGame
  \/ App_proceedFromRoleReveal
  \/ App_handleChooseCard
  \/ App_proceedFromPlan
  \/ App_proceedFromIgnition
  \/ App_handlePlayEngageItem
  \/ App_handleMinigameComplete
  \/ App_resolveMaintenance
  \/ App_restartGame

Next == NextGame \/ NextApp

Spec == Init /\ [][Next]_vars

\* the engines with minigames that may call onComplete a second time
NextRedelivery == Next \/ staleMinigameComplete \/ App_staleMinigameComplete

SpecRedelivery == Init /\ [][NextRedelivery]_vars

\* ------------------------------------------------------ dealing, any stream
\* every value k/RngDen that rng.next() can return in [0, 1)
DealValues == 0..(RngDen - 1)

\* the rng.next() values of one deal of a hand, one per step of the shuffle
DealStreams == [1..(Len(CARD_VALUES) - 1) -> DealValues]

\* the rng.next() values of the cards drawn at plan.lock, one per player
DrawStreams == [1..Len(PlayerOrder) -> DealValues]

\* roleReveal.continue in RoleReveal: dealHand with any stream
dealAnyHand ==
  /\ engine = "game"
  /\ phase = "RoleReveal"
  /\ \E stream \in DealStreams :
    /\ hand' = DealtHand(stream, balanceConfig)
    /\ slotCard' = NoCard
    /\ round' = DealtRound(round)
    /\ phase' = nextPhase(phase, "START")
    /\ UNCHANGED <<engine, players, roundIndex, reactorLimit, shipHealth01, overloads, clears,
                   activeMinigame, balanceConfig, gameVars, appVars>>
    /\ Handled

App_dealAnyHand ==
  /\ engine = "app"
  /\ phase = "RoleReveal"
  /\ \E stream \in DealStreams :
    /\ hand' = App_DealtHand(stream)
    /\ slotCard' = NoCard
    /\ App_Commit("Plan", players, DealtRound(round), activeMinigame, pendingItemEffect)
    /\ UNCHANGED <<engine, roundIndex, reactorLimit, shipHealth01, overloads, clears,
                   balanceConfig, gameVars>>
    /\ Handled

\* plan.lock in Plan with a card chosen: the other players' cards drawn with any stream
lockAnyDraw ==
  /\ engine = "game"
  /\ ~LockRefused(phase, round.cardsPlayed[LOCAL_PLAYER_ID])
  /\ \E stream \in DrawStreams :
    /\ round' = LockedRound(round, stream, balanceConfig.deckSize, reactorLimit)
    /\ phase' = nextPhase(phase, "PLAN_LOCK_IN")
    /\ UNCHANGED <<engine, players, roundIndex, reactorLimit, shipHealth01, overloads,
                   clears, hand, slotCard, activeMinigame, balanceConfig, gameVars, appVars>>
    /\ Handled

App_lockAnyDraw ==
  /\ engine = "app"
  /\ ~LockRefused(phase, round.cardsPlayed[LOCAL_PLAYER_ID])
  /\ \E stream \in DrawStreams :
    /\ App_Commit("Ignition", players, LockedRound(round, stream, 9, reactorLimit),
                  activeMinigame, pendingItemEffect)
    /\ UNCHANGED <<engine, roundIndex, reactorLimit, shipHealth01, overloads, clears,
                   hand, slotCard, balanceConfig, gameVars>>
    /\ Handled

\* the start of a game up to Ignition, the RNG returning any values
NextDeal ==
  \/ startGame /\ phase = "Lobby"
  \/ dealAnyHand
  \/ handleChooseCard
  \/ lockAnyDraw
  \/ App_startGame /\ phase = "Lobby"
  \/ App_dealAnyHand
  \/ App_handleChooseCard
  \/ App_lockAnyDraw

SpecDeal == Init /\ [][NextDeal]_vars

\* ------------------------------------------------------ the balance file
\* useEffect(() => { loadBalanceConfig().then(setBalanceConfig) }, []): the
\* response is merged over the defaults, the merged configuration becomes the
\* balanceConfig state and the effect on [balanceConfig, players] recomputes the
\* gate of the round
loadBalanceConfig ==
  /\ engine = "game"
  /\ fetched = << >>
  /\ \E raw \in RawConfigs :
       /\ fetched' = <<raw>>
       /\ balanceConfig' = mergeBalanceConfig(raw)
       /\ round' = [round EXCEPT !.gate = computeGate(round.index, mergeBalanceConfig(raw))]
  /\ UNCHANGED <<engine, phase, players, roundIndex, reactorLimit, shipHealth01, overloads,
                 clears, hand, slotCard, activeMinigame, gameVars, appVars, envVars>>
  /\ ignored' = ""
  /\ delivered' = << >>

\* CoreCollapseGame mounted with a balance file of any content
NextConfig == loadBalanceConfig

SpecConfig == Init /\ [][NextConfig]_vars

\* the bodies of a response that failed (nothing to merge) and of a balance file
\* that holds every key, each value of the type BalanceConfig declares
WellFormedConfigs ==
  { r \in RawConfigs :
      /\ r.isObject => r.keys = ConfigKeys
      /\ r.roundsMax # Malformed
      /\ r.deckSize # Malformed
      /\ \A i \in 1..Len(r.gateOffsets) : r.gateOffsets[i] # Malformed }

\* the response of loadBalanceConfig arrives, with a well-formed body, at any
\* moment of a game
loadWellFormedConfig ==
  /\ engine = "game"
  /\ fetched = << >>
  /\ \E raw \in WellFormedConfigs :
       /\ fetched' = <<raw>>
       /\ balanceConfig' = mergeBalanceConfig(raw)
       /\ round' = [round EXCEPT !.gate = computeGate(round.index, mergeBalanceConfig(raw))]
  /\ UNCHANGED <<engine, phase, players, roundIndex, reactorLimit, shipHealth01, overloads,
                 clears, hand, slotCard, activeMinigame, gameVars, appVars, envVars>>
  /\ ignored' = ""
  /\ delivered' = << >>

\* CoreCollapseGame in the plain course of a game (every event dispatched in its
\* phase), the balance file arriving at any moment
NextLoad ==
  \/ startGame /\ strays' = strays
  \/ proceedFromRoleReveal /\ strays' = strays
  \/ handleChooseCard /\ strays' = strays
  \/ proceedFromPlan /\ strays' = strays
  \/ proceedFromIgnition /\ strays' = strays
  \/ handleEngagePass /\ strays' = strays
  \/ handlePlayEngageItem /\ strays' = strays
  \/ handleMinigameComplete
  \/ finalizeTimeout
  \/ resolveMaintenance /\ strays' = strays
  \/ restartGame /\ strays' = strays
  \/ loadWellFormedConfig

SpecLoad == Init /\ [][NextLoad]_vars

\* ------------------------------------------------------------------- claims
\* the dispatch of each phase event, under either engine
LobbyReady == startGame \/ App_startGame

RoleRevealContinue == proceedFromRoleReveal \/ App_proceedFromRoleReveal

PlanLock == proceedFromPlan \/ App_proceedFromPlan

IgnitionProceed == proceedFromIgnition \/ App_proceedFromIgnition

MaintenanceResolve == resolveMaintenance \/ App_resolveMaintenance

GameOverRestart == restartGame \/ App_restartGame

PhaseEdges ==
  { <<"Lobby", "RoleReveal">>, <<"RoleReveal", "Plan">>, <<"Plan", "Ignition">>,
    <<"Ignition", "Engage">>, <<"Engage", "MiniGame">>, <<"MiniGame", "Engage">>,
    <<"Engage", "Maintenance">>, <<"Maintenance", "Plan">>, <<"Maintenance", "GameOver">>,
    <<"GameOver", "Lobby">> }

\* a phase event dispatched in a phase other than the one it is listed for
MisplacedEvent ==
  \/ LobbyReady /\ phase # "Lobby"
  \/ RoleRevealContinue /\ phase # "RoleReveal"
  \/ PlanLock /\ phase # "Plan"
  \/ IgnitionProceed /\ phase # "Ignition"
  \/ handleEngagePass /\ phase # "Engage"
  \/ MaintenanceResolve /\ phase # "Maintenance"
  \/ GameOverRestart /\ phase # "GameOver"

\* C1: the phase changes only along the ten listed edges, and a phase event that
\* is not the one listed for the current phase leaves the phase unchanged.
C1_PhaseEdges ==
  [][ /\ (phase' # phase => <<phase, phase'>> \in PhaseEdges)
      /\ (MisplacedEvent => phase' = phase) ]_vars

\* C2: a Maintenance resolution counts an Overload iff totalAfterItems >= reactorLimit,
\* a Clear iff reactorLimit > totalAfterItems >= gate, and otherwise neither (Fail);
\* when the resolved round is kept, its outcome is that classification.
C2_Classification ==
  [][ MaintenanceResolve =>
        LET total == round.totalAfterItems
            isOverload == total >= reactorLimit * Scale
            isClear == ~isOverload /\ total >= round.gate * Scale
        IN /\ overloads' = overloads + (IF isOverload THEN 1 ELSE 0)
           /\ clears' = clears + (IF isClear THEN 1 ELSE 0)
           /\ round'.index = round.index =>
                round'.outcome = IF isOverload THEN "Overload"
                                 ELSE IF isClear THEN "Clear" ELSE "Fail" ]_vars

\* a game without stray events ended by a round whose total reached both the gate
\* and the reactor limit
C2_Witness ==
  /\ strays = 0
  /\ phase = "GameOver"
  /\ round.outcome = "Overload"
  /\ round.totalAfterItems >= round.gate * Scale
  /\ round.totalAfterItems >= reactorLimit * Scale

\* C3: one maintenance.resolve lowers shipHealth01 by 0.3 and adds one overload on
\* Overload, lowers shipHealth01 by 0.1 on Fail, and adds one clear without lowering
\* shipHealth01 on Clear; the other counter(s) are unchanged.
C3_ResolveCounters ==
  [][ MaintenanceResolve =>
        LET total == round.totalAfterItems
        IN IF total >= reactorLimit * Scale
           THEN /\ shipHealth01' = shipHealth01 - 30
                /\ overloads' = overloads + 1
                /\ clears' = clears
           ELSE IF total >= round.gate * Scale
           THEN /\ clears' = clears + 1
                /\ overloads' = overloads
                /\ shipHealth01' >= shipHealth01
           ELSE /\ shipHealth01' = shipHealth01 - 10
                /\ overloads' = overloads
                /\ clears' = clears ]_vars

\* C4: when a Clear round is resolved, shipHealth01 gains 0.05 (up to 1) iff every
\* result recorded in the round has tier success (so also when there is none), and
\* is unchanged otherwise.
C4_AllSuccessBonus ==
  [][ ( /\ MaintenanceResolve
        /\ round.totalAfterItems < reactorLimit * Scale
        /\ round.totalAfterItems >= round.gate * Scale )
      => shipHealth01' =
           IF \A i \in 1..Len(round.minigameResults) : round.minigameResults[i].tier = "success"
           THEN Min(Scale, shipHealth01 + 5)
           ELSE shipHealth01 ]_vars

\* a game without stray events ended by a Clear round with no minigame result, the
\* bonus showing in shipHealth01
C4_Witness ==
  /\ strays = 0
  /\ phase = "GameOver"
  /\ round.outcome = "Clear"
  /\ round.minigameResults = << >>
  /\ shipHealth01 % 10 = 5

AllUnused(ps) == \A p \in PlayerIds : \A i \in 1..Len(ps[p].items) : ~ps[p].items[i].used

\* C5: resolving Maintenance leads to GameOver iff the updated overloads >= 2 or
\* roundIndex >= 6; otherwise roundIndex grows by one, the round is a fresh RoundState
\* of the new index, a new hand is dealt, every item is unused and the phase is Plan.
C5_AfterResolution ==
  [][ (MaintenanceResolve /\ phase = "Maintenance") =>
        IF overloads' >= 2 \/ roundIndex >= 6
        THEN phase' = "GameOver"
        ELSE /\ phase' = "Plan"
             /\ roundIndex' = roundIndex + 1
             /\ round'.index = roundIndex + 1
             /\ round'.gate = 4 * Len(PlayerOrder) + GATE_OFFSETS[(roundIndex % 5) + 1]
             /\ \A p \in PlayerIds : round'.cardsPlayed[p] = NoCard
             /\ round'.minigameResults = << >>
             /\ round'.totalBeforeItems = 0
             /\ round'.totalAfterItems = 0
             /\ round'.outcome = NoOutcome
             /\ Len(hand') = 5
             /\ slotCard' = NoCard
             /\ AllUnused(players') ]_vars

\* C6: roundIndex and round.index stay within 1..6, and the game is over only with
\* two overloads or in round 6.
C6_RoundBounds ==
  /\ roundIndex \in 1..6
  /\ round.index \in 1..6
  /\ phase = "GameOver" => (overloads >= 2 \/ roundIndex = 6)

\* a game without stray events ended by the resolution of round 6
C6_Witness ==
  strays = 0 /\ phase = "GameOver" /\ roundIndex = 6 /\ round.index = 6 /\ overloads < 2

\* C7: shipHealth01 lies in [0, 1].
C7_ShipHealthRange == shipHealth01 >= 0 /\ shipHealth01 <= Scale

\* losses from low health: the ship at 0 after a resolution
C7_Witness == phase = "GameOver" /\ shipHealth01 = 0

\* C8: in round 1 (gate 10, limit 18, no overloads or clears), with a card total of
\* 12 and one result, the local player's VENT at tier success, the total resolved is 9
\* and the resolution leaves shipHealth01 = 0.95, overloads = 0, clears = 0, round 2.
C8_Scenario ==
  [][ ( /\ MaintenanceResolve
        /\ phase = "Maintenance"
        /\ roundIndex = 1 /\ round.index = 1 /\ round.gate = 10 /\ reactorLimit = 18
        /\ overloads = 0 /\ clears = 0
        /\ round.totalBeforeItems = 12 * Scale
        /\ Len(round.minigameResults) = 1
        /\ round.minigameResults[1].playerId = LOCAL_PLAYER_ID
        /\ round.minigameResults[1].itemId = "VENT"
        /\ round.minigameResults[1].tier = "success" )
      => /\ round.totalAfterItems = 9 * Scale
         /\ shipHealth01' = 95
         /\ overloads' = 0
         /\ clears' = 0
         /\ roundIndex' = 2
         /\ round'.index = 2 ]_vars

\* C9: plan.lock is all-or-nothing, so that in phase Ignition no player's card is
\* null and totalBeforeItems and totalAfterItems both equal the sum of the cards.
C9_LockAllOrNothing ==
  phase = "Ignition" =>
       /\ \A p \in PlayerIds : round.cardsPlayed[p] # NoCard
       /\ round.totalBeforeItems = Scale * SumCards(round.cardsPlayed, 1)
       /\ round.totalAfterItems = Scale * SumCards(round.cardsPlayed, 1)

\* C10: maintenance.resolve dispatched outside Maintenance changes none of the
\* round, shipHealth01, overloads, clears, roundIndex and the phase.
C10_ResolveIgnored ==
  [][ (MaintenanceResolve /\ phase # "Maintenance") =>
        UNCHANGED <<round, shipHealth01, overloads, clears, roundIndex, phase>> ]_vars

PlanChooseCard == handleChooseCard \/ App_handleChooseCard

PlayEngageItem == handlePlayEngageItem \/ App_handlePlayEngageItem

\* every result recorded in the round is the local player's, for an item the
\* local player owns
ResultsLocalOwned ==
  \A i \in 1..Len(round.minigameResults) :
    /\ round.minigameResults[i].playerId = LOCAL_PLAYER_ID
    /\ \E item \in ItemsOf(LOCAL_PLAYER_ID) : item.id = round.minigameResults[i].itemId

\* C12: an item-activation request starts a minigame only in Engage, with no
\* minigame in flight, for the local player and an unused item the local player
\* owns, and otherwise changes nothing; so every recorded result has the local
\* player's id and the id of an item the local player owns.
C12_ActivationGuard ==
  [][ /\ PlayEngageItem =>
           IF /\ phase = "Engage"
              /\ activeMinigame = << >>
              /\ activeMinigame' # << >>
              /\ activeMinigame'[1].player = LOCAL_PLAYER_ID
              /\ activeMinigame'[1].item \in ItemsOf(LOCAL_PLAYER_ID)
              /\ ~activeMinigame'[1].item.used
           THEN TRUE
           ELSE UNCHANGED progVars
      /\ ResultsLocalOwned' ]_vars

MinigameComplete ==
  \/ handleMinigameComplete
  \/ staleMinigameComplete
  \/ App_handleMinigameComplete
  \/ App_staleMinigameComplete

\* the table of the claim, in hundredths: the total delta and the ship delta of
\* an item resolved with a tier
TableDeltaTotal(itemId, tier, isBelowGate) ==
  CASE itemId = "BOOST" -> (CASE tier = "success" -> 300 [] tier = "partial" -> 100 [] OTHER -> 0)
    [] itemId = "VENT" -> (CASE tier = "success" -> -300 [] tier = "partial" -> -200
                             [] OTHER -> -100)
    [] OTHER -> (IF isBelowGate THEN 1 ELSE -1)
                  * (CASE tier = "success" -> 200 [] tier = "partial" -> 100 [] OTHER -> 0)

TableDeltaShip(itemId, tier) ==
  IF itemId = "VENT"
  THEN (CASE tier = "success" -> 5 [] tier = "partial" -> 0 [] OTHER -> -2)
  ELSE 0

\* C13: the result a minigame completion records carries, for the tier delivered,
\* the deltaTotal and the ship delta of the table (BOOST +3/+1/0; VENT -3/-2/-1 with
\* ship +0.05/0/-0.02; EQUALIZER +2/+1/0 below the gate and -2/-1/0 otherwise), and
\* totalAfterItems moves by that deltaTotal.
C13_TierTable ==
  [][ (MinigameComplete /\ Len(round'.minigameResults) = Len(round.minigameResults) + 1) =>
        LET result == round'.minigameResults[Len(round'.minigameResults)]
            expected == TableDeltaTotal(result.itemId, result.tier,
                                        round.totalAfterItems < round.gate * Scale)
        IN /\ result.deltaTotal = expected
           /\ result.deltaShipHealth01 = TableDeltaShip(result.itemId, result.tier)
           /\ round'.totalAfterItems = round.totalAfterItems + expected ]_vars

\* C14: an EQUALIZER resolved with tier success moves totalAfterItems by +2 when
\* the running totalAfterItems is below the gate and by -2 otherwise, whatever
\* totalBeforeItems is.
C14_EqualizerDirection ==
  [][ ( /\ MinigameComplete
        /\ Len(round'.minigameResults) = Len(round.minigameResults) + 1
        /\ round'.minigameResults[Len(round'.minigameResults)].itemId = "EQUALIZER"
        /\ round'.minigameResults[Len(round'.minigameResults)].tier = "success" )
      => round'.totalAfterItems =
           round.totalAfterItems
             + (IF round.totalAfterItems < round.gate * Scale THEN 2 * Scale ELSE -2 * Scale)
    ]_vars

\* some item's used flag goes from false to true in the step
BecomesUsed ==
  \E p \in PlayerIds :
    \E i \in 1..Min(Len(players[p].items), Len(players'[p].items)) :
      ~players[p].items[i].used /\ players'[p].items[i].used

\* C15: at every Ignition->Engage transition every item is unused, and a used flag
\* is set to true only by the resolution of a minigame.
C15_UsedLifecycle ==
  [][ /\ (phase = "Ignition" /\ phase' = "Engage") => AllUnused(players')
      /\ BecomesUsed => MinigameComplete ]_vars

\* C16: Engage starts at seat 0; a result is recorded for the player of the seat
\* being served; a round never holds two results of one player; and Engage (or
\* its minigame) gives way to Maintenance only from the last seat.
C16_SeatOrder ==
  [][ /\ (phase = "Ignition" /\ phase' = "Engage") => engageSeatIndex' = 0
      /\ (MinigameComplete /\ Len(round'.minigameResults) = Len(round.minigameResults) + 1)
           => round'.minigameResults[Len(round'.minigameResults)].playerId
                = PlayerOrder[engageSeatIndex + 1]
      /\ \A i, j \in 1..Len(round'.minigameResults) :
           i # j => round'.minigameResults[i].playerId # round'.minigameResults[j].playerId
      /\ (phase \in {"Engage", "MiniGame"} /\ phase' = "Maintenance")
           => engageSeatIndex + 1 >= Len(PlayerOrder) ]_vars

\* C17: while a minigame is active, no step other than the delivery of its
\* completion changes the phase, the seat index, the round totals or the
\* persistent counters.
C17_Suspension ==
  [][ (activeMinigame # << >> /\ ~MinigameComplete) =>
        /\ UNCHANGED <<phase, engageSeatIndex, roundIndex, shipHealth01, overloads, clears>>
        /\ round'.totalBeforeItems = round.totalBeforeItems
        /\ round'.totalAfterItems = round.totalAfterItems ]_vars

\* C18: a second delivery of the completion callback of an activation that is
\* already resolved changes none of the round's totalAfterItems and results,
\* shipHealth01, the used flags, the seat index and the phase.
C18_CompletionIdempotent ==
  [][ (staleMinigameComplete \/ App_staleMinigameComplete) =>
        /\ UNCHANGED <<shipHealth01, players, engageSeatIndex, phase>>
        /\ round'.totalAfterItems = round.totalAfterItems
        /\ round'.minigameResults = round.minigameResults ]_vars

\* C19: gameOver.restart in GameOver leaves the initial state: phase Lobby, round
\* index 1, a fresh round 1 (gate 10, no card, totals 0, no result, no outcome),
\* shipHealth01 = 1, no overloads or clears, an empty hand and slot, every item
\* unused, no active minigame and seat index 0.
C19_RestartInitial ==
  [][ (GameOverRestart /\ phase = "GameOver") =>
        /\ phase' = "Lobby"
        /\ roundIndex' = 1
        /\ round'.index = 1
        /\ round'.gate = 10
        /\ \A p \in PlayerIds : round'.cardsPlayed[p] = NoCard
        /\ round'.totalBeforeItems = 0
        /\ round'.totalAfterItems = 0
        /\ round'.minigameResults = << >>
        /\ round'.outcome = NoOutcome
        /\ shipHealth01' = Scale
        /\ overloads' = 0
        /\ clears' = 0
        /\ hand' = << >>
        /\ slotCard' = NoCard
        /\ AllUnused(players')
        /\ activeMinigame' = << >>
        /\ engageSeatIndex' = 0 ]_vars

\* C20: the gate of every round state is gateBasePerPlayer * playerCount +
\* gateOffsets[(index - 1) mod len(gateOffsets)]; with the defaults and three
\* players the gates of rounds 1..6 are 10, 11, 12, 13, 14, 10.
C20_GateFormula ==
  /\ round.gate = defaultBalanceConfig.gateBasePerPlayer * Len(PlayerOrder)
                   + defaultBalanceConfig.gateOffsets[
                       ((round.index - 1) % Len(defaultBalanceConfig.gateOffsets)) + 1]
  /\ round.index \in 1..6 => round.gate = <<10, 11, 12, 13, 14, 10>>[round.index]

\* round 6 of a game without stray events, the offsets wrapped around: gate 10
C20_Witness ==
  strays = 0 /\ phase = "Plan" /\ roundIndex = 6 /\ round.index = 6 /\ round.gate = 10

\* the gate offset the round state uses: its gate less the base of the three players
GateOffsetUsed == round.gate - defaultBalanceConfig.gateBasePerPlayer * Len(PlayerOrder)

\* C21 (as stated): with the default offsets the round of index 1 uses the gate
\* offset -2 and the round of index 6 uses the gate offset -1.
C21_WrapOffsets_Stated ==
  /\ round.index = 1 => GateOffsetUsed = -2
  /\ round.index = 6 => GateOffsetUsed = -1

\* C21 (amended): with the default offsets the round of index 1 uses the gate
\* offset -2 and the round of index 6 uses the gate offset -2 again, the first
\* offset of the cycle.
C21_WrapOffsets ==
  /\ round.index = 1 => GateOffsetUsed = -2
  /\ round.index = 6 => GateOffsetUsed = -2

\* round 6 being played with cards locked in, its gate two below the base
C21_Witness ==
  phase = "Engage" /\ roundIndex = 6 /\ round.index = 6 /\ GateOffsetUsed = -2

\* C22: on the GameOver screen exactly one of the two victories is declared: the
\* crew's iff clears >= 4 and overloads < 2, and the saboteur's in every other case.
C22_Victory ==
  phase = "GameOver" =>
    LET title == GameOverTitle(clears, overloads)
    IN /\ title \in {"Crew Victory", "Saboteur Victory"}
       /\ title = "Crew Victory" <=> (clears >= 4 /\ overloads < 2)
       /\ title = "Saboteur Victory" <=> (clears < 4 \/ overloads >= 2)

\* a game lost to the second overload although four rounds were cleared
C22_Witness ==
  /\ phase = "GameOver"
  /\ clears >= 4
  /\ overloads >= 2
  /\ GameOverTitle(clears, overloads) = "Saboteur Victory"

\* r.reactorEnergy01 = min(1, r.totalBeforeItems / reactorLimit), within [0, 1]
\* (fractions compared by cross-multiplication; totals are in hundredths)
EnergyNormalized(r) ==
  LET e == r.reactorEnergy01
  IN /\ e.den > 0
     /\ e.num >= 0
     /\ e.num <= e.den
     /\ e.num * (reactorLimit * Scale) = Min(reactorLimit * Scale, r.totalBeforeItems) * e.den
     /\ r.totalBeforeItems >= reactorLimit * Scale => e.num = e.den

\* C24: the Plan->Ignition transition leaves reactorEnergy01 =
\* min(1, totalBeforeItems / reactorLimit), a value in [0, 1] that is 1 for every
\* card total >= reactorLimit; it keeps that value through Ignition and Engage,
\* and no item activation or minigame resolution changes it.
C24_ReactorEnergy ==
  [][ /\ (phase = "Plan" /\ phase' = "Ignition") => EnergyNormalized(round')
      /\ (phase' \in {"Ignition", "Engage", "MiniGame"}) => EnergyNormalized(round')
      /\ (PlayEngageItem \/ MinigameComplete \/ finalizeTimeout \/ handleEngagePass)
           => round'.reactorEnergy01 = round.reactorEnergy01 ]_vars

\* a minigame resolved in a round whose cards reached the reactor limit: the
\* energy is still 1 while totalAfterItems has moved
C24_Witness ==
  /\ phase \in {"Engage", "MiniGame", "Maintenance"}
  /\ round.totalBeforeItems >= reactorLimit * Scale
  /\ round.reactorEnergy01.num = round.reactorEnergy01.den
  /\ Len(round.minigameResults) > 0
  /\ round.totalAfterItems # round.totalBeforeItems

\* a step that deals a hand: the first deal of a game, or the deal of a next round
DealsHand ==
  \/ phase = "RoleReveal" /\ phase' = "Plan"
  \/ phase = "Maintenance" /\ phase' = "Plan"

\* C25: every hand dealt has exactly handSize (5) pairwise distinct card values,
\* each in 1..deckSize (9), whatever values in [0, 1) the RNG returns; and every
\* card drawn for a player at Plan->Ignition is an integer in 1..deckSize.
C25_DealtCards ==
  [][ /\ DealsHand =>
           /\ Len(hand') = 5
           /\ \A i \in 1..Len(hand') : hand'[i] \in 1..9
           /\ \A i, j \in 1..Len(hand') : i # j => hand'[i] # hand'[j]
      /\ (phase = "Plan" /\ phase' = "Ignition") =>
           \A p \in PlayerIds :
             round.cardsPlayed[p] = NoCard => round'.cardsPlayed[p] \in 1..9 ]_vars

\* cards locked in with the lowest and the highest draw for the two other
\* players, after a hand that starts with the last card of the deck
C25_Witness ==
  /\ phase = "Ignition"
  /\ strays = 0
  /\ Len(hand) = 4
  /\ 9 \in {slotCard} \cup HandCards
  /\ round.cardsPlayed["p2"] = 1
  /\ round.cardsPlayed["p3"] = 7

\* the item bound to a job
ItemOfJob(job) ==
  CASE job = "PowerEngineer" -> "BOOST"
    [] job = "CoolantTech" -> "VENT"
    [] OTHER -> "EQUALIZER"

\* each player holds exactly one item, the one bound to the player's job, and
\* has the role assigned at the start
HoldingsBound(ps) ==
  \A p \in PlayerIds :
    /\ Len(ps[p].items) = 1
    /\ ps[p].items[1].id = ItemOfJob(ps[p].job)
    /\ ps[p].items[1].job = ps[p].job
    /\ ps[p].role = (IF p = "p3" THEN "Saboteur" ELSE "Crew")

\* the same jobs, roles and items, the used flags aside
SameHoldings(ps, qs) ==
  \A p \in PlayerIds :
    /\ qs[p].job = ps[p].job
    /\ qs[p].role = ps[p].role
    /\ Len(qs[p].items) = Len(ps[p].items)
    /\ \A i \in 1..Len(ps[p].items) :
         [qs[p].items[i] EXCEPT !.used = FALSE] = [ps[p].items[i] EXCEPT !.used = FALSE]

\* C26: each player always holds exactly one item, the one bound to the player's
\* job, and has the role assigned at the start; and outside the Lobby no event
\* (the restart that ends the game aside) adds, removes or replaces an item or
\* changes a job or a role: only used flags change.
C26_HoldingsFixed ==
  [][ /\ HoldingsBound(players')
      /\ (phase # "Lobby" /\ ~GameOverRestart) => SameHoldings(players, players') ]_vars

\* C27: within one round, once Plan->Ignition has set it, totalAfterItems changes
\* only when a minigame resolves during Engage, by exactly the deltaTotal of the
\* result that step appends; every other event leaves it unchanged.
C27_TotalFrame ==
  [][ ( /\ phase \in {"Ignition", "Engage", "MiniGame", "Maintenance"}
        /\ round'.index = round.index
        /\ ~GameOverRestart )
      => /\ (MinigameComplete /\ Len(round'.minigameResults) = Len(round.minigameResults) + 1)
              => round'.totalAfterItems = round.totalAfterItems
                   + round'.minigameResults[Len(round'.minigameResults)].deltaTotal
         /\ round'.totalAfterItems # round.totalAfterItems
              => /\ MinigameComplete
                 /\ phase \in {"Engage", "MiniGame"}
                 /\ Len(round'.minigameResults) = Len(round.minigameResults) + 1 ]_vars

\* a round state as created: no card, no total, no result, no outcome
FreshRound(r) ==
  /\ r.outcome = NoOutcome
  /\ \A p \in PlayerIds : r.cardsPlayed[p] = NoCard
  /\ r.totalBeforeItems = 0
  /\ r.totalAfterItems = 0
  /\ r.minigameResults = << >>

\* C28: the outcome of a round state goes from unset to Clear, Fail or Overload
\* only by a Maintenance resolution; once set it keeps its value for that round
\* state, and an unset outcome follows a set one only on the fresh round state of
\* the next round or of a restart.
C28_OutcomeOnce ==
  [][ /\ (round.outcome = NoOutcome /\ round'.outcome # NoOutcome)
           => /\ MaintenanceResolve
              /\ phase = "Maintenance"
              /\ round'.outcome \in {"Clear", "Fail", "Overload"}
              /\ round'.index = round.index
      /\ round.outcome # NoOutcome
           => \/ round'.outcome = round.outcome /\ round'.index = round.index
              \/ /\ FreshRound(round')
                 /\ round'.index = round.index + 1 \/ GameOverRestart ]_vars

\* the seat being served passes without a minigame: from Engage, with no result
\* recorded, the seat index advances or Maintenance begins
SeatPasses ==
  /\ Next
  /\ phase = "Engage"
  /\ round'.minigameResults = round.minigameResults
  /\ activeMinigame' = << >>
  /\ (phase' = "Engage" /\ engageSeatIndex' = engageSeatIndex + 1) \/ phase' = "Maintenance"

\* C29: Engage never deadlocks short of Maintenance: in every Engage state either
\* a minigame completion is pending (a minigame is active, or the advance that
\* follows its completion is scheduled), or the seat being served can pass
\* without a minigame, whether or not its player has an unused Engage item.
C29_EngageProgress ==
  phase = "Engage" =>
    \/ activeMinigame # << >>
    \/ pendingFinalize > 0
    \/ ENABLED SeatPasses

\* the scalar keys among ConfigKeys
ScalarKeys == ConfigKeys \ {"gateOffsets"}

\* C30: a merged override falls back per field: a scalar that is not a finite
\* number is replaced by its default while the well-formed fields of the same
\* override are kept, and a gateOffsets that is not an array of finite numbers
\* only is replaced by the full default offsets, not by its finite entries.
C30_MergeFallback ==
  (fetched # << >> /\ fetched[1].isObject) =>
    LET raw == fetched[1]
    IN /\ \A f \in ScalarKeys :
            balanceConfig[f] = IF f \in raw.keys /\ raw[f] # Malformed THEN raw[f]
                               ELSE defaultBalanceConfig[f]
       /\ balanceConfig.gateOffsets =
            IF /\ "gateOffsets" \in raw.keys
               /\ raw.isArray
               /\ \A i \in 1..Len(raw.gateOffsets) : raw.gateOffsets[i] # Malformed
            THEN raw.gateOffsets
            ELSE defaultBalanceConfig.gateOffsets
       /\ balanceConfig.items = defaultBalanceConfig.items

\* the sum of deltaTotal over the results from the i-th on
RECURSIVE SumDeltaTotal(_, _)
SumDeltaTotal(results, i) ==
  IF i > Len(results) THEN 0 ELSE results[i].deltaTotal + SumDeltaTotal(results, i + 1)

\* C31: in every reachable state round.totalAfterItems equals
\* round.totalBeforeItems plus the sum of deltaTotal over round.minigameResults.
C31_TotalIsSum ==
  round.totalAfterItems = round.totalBeforeItems + SumDeltaTotal(round.minigameResults, 1)

\* the cards the local player holds: the hand and the card in the slot
CardsHeld == IF slotCard = NoCard THEN hand ELSE Append(hand, slotCard)

\* C32: during Plan the local player's cards are conserved: a plan.chooseCard
\* event, whatever value it carries (a card of the hand, the card already in the
\* slot, a value that is not in the hand), leaves the hand together with the slot
\* the same set of as many cards, so no card is duplicated, lost or invented and
\* the card locked in is one of the cards dealt.
C32_CardsConserved ==
  [][ (phase = "Plan" /\ PlanChooseCard) =>
        /\ Len(CardsHeld') = Len(CardsHeld)
        /\ {CardsHeld'[i] : i \in 1..Len(CardsHeld')} = {CardsHeld[i] : i \in 1..Len(CardsHeld)}
    ]_vars

\* C33: in every reachable state overloads <= 2, and clears + overloads is at
\* most the number of rounds resolved, which is at most roundIndex and so at most
\* roundsMax: no round is resolved twice and none is counted after GameOver.
C33_CounterBounds ==
  /\ overloads <= 2
  /\ clears + overloads <= roundIndex
  /\ roundIndex <= balanceConfig.roundsMax

\* C34: no committed state holds a half-applied minigame resolution: whenever the
\* phase is MiniGame there is an active minigame descriptor, and no state has a
\* result recorded and its item marked used while the seat advancement of that
\* activation is still to be applied (scheduled, where another event can come
\* before it).
C34_ResolutionAtomic ==
  /\ phase = "MiniGame" => activeMinigame # << >>
  /\ pendingFinalize = 0

\* C35: the gate of a round in play is the one its RoundState was created with,
\* and the roundsMax its Maintenance resolution tests is the one the round began
\* with: while the round stays the same, no step changes them, the arrival of the
\* loaded balance configuration in the middle of the round included.
C35_GateFixed ==
  [][ ( /\ phase \in {"Plan", "Ignition", "Engage", "MiniGame", "Maintenance"}
        /\ round'.index = round.index
        /\ ~GameOverRestart )
      => /\ round'.gate = round.gate
         /\ balanceConfig'.roundsMax = balanceConfig.roundsMax ]_vars

\* C36: in every reachable state 0 <= engageSeatIndex < playerCount, and within
\* one Engage phase (its minigames included) engageSeatIndex never decreases and
\* increases only by 1, by an engage.pass or by the advance that follows a
\* minigame completion.
C36_SeatIndex ==
  [][ /\ engageSeatIndex \in 0..(Len(PlayerOrder) - 1)
      /\ engageSeatIndex' \in 0..(Len(PlayerOrder) - 1)
      /\ (phase \in {"Engage", "MiniGame"} /\ phase' \in {"Engage", "MiniGame"})
           => \/ engageSeatIndex' = engageSeatIndex
              \/ /\ engageSeatIndex' = engageSeatIndex + 1
                 /\ handleEngagePass \/ finalizeTimeout ]_vars

\* C37: in every reachable state whose phase is Ignition, Engage, MiniGame or
\* Maintenance, every player's cardsPlayed entry is a card in 1..deckSize and
\* round.totalBeforeItems is the sum of those entries: no event dispatched in
\* those phases nulls a card or resets the round while the phase stays.
C37_CardsLocked ==
  phase \in {"Ignition", "Engage", "MiniGame", "Maintenance"} =>
    /\ \A p \in PlayerIds : round.cardsPlayed[p] \in 1..balanceConfig.deckSize
    /\ round.totalBeforeItems = Scale * SumCards(round.cardsPlayed, 1)

\* C38: every game ends and stays ended: a Maintenance resolution of the last
\* round (roundIndex >= roundsMax) or with the second overload gives GameOver,
\* so GameOver comes after at most roundsMax Maintenance resolutions, and once
\* the phase is GameOver it stays GameOver until gameOver.restart.
C38_GameEnds ==
  [][ /\ ( /\ MaintenanceResolve
           /\ phase = "Maintenance"
           /\ roundIndex >= balanceConfig.roundsMax \/ overloads' >= 2 )
        => phase' = "GameOver"
      /\ (phase = "GameOver" /\ ~GameOverRestart) => phase' = "GameOver" ]_vars

====
